---- MODULE Spec2Model ----
(***************************************************************************)
(* Loto ticket generation (src/features/ticket/utils/loto-generator.ts)    *)
(* and the ticket store that persists generated tickets per room          *)
(* (database service layer and supabase/migrations/001_initial_schema.sql).*)
(*                                                                         *)
(* Arrays keep the source's 0-based indices: an array of length n is a     *)
(* function with domain 0..n-1, except the short lists the code builds by  *)
(* push (rows, numbers), which are sequences.                              *)
(***************************************************************************)
EXTENDS Integers, Sequences, FiniteSets, TLC

\* ------------------------------------------------------------------------
\* Program constants (loto-generator.ts)
\* ------------------------------------------------------------------------
ROWS == 3
COLS == 9
NUMBERS_PER_ROW == 5
TOTAL_NUMBERS == 15
maxAttempts == 100

\* TicketCell = number | null; a number of a ticket is never 0.
null == 0

\* The ranges 1-10, 11-20, ..., 81-90.
COLUMN_RANGES_tens == [col \in 0..(COLS - 1) |-> <<10 * col + 1, 10 * col + 10>>]

COLUMN_RANGES ==
  [col \in 0..(COLS - 1) |->
     CASE col = 0 -> <<1, 9>>
       [] col = 1 -> <<10, 19>>
       [] col = 2 -> <<20, 29>>
       [] col = 3 -> <<30, 39>>
       [] col = 4 -> <<40, 49>>
       [] col = 5 -> <<50, 59>>
       [] col = 6 -> <<60, 69>>
       [] col = 7 -> <<70, 79>>
       [] col = 8 -> <<80, 90>>]

\* ------------------------------------------------------------------------
\* Bounds of the model
\* ------------------------------------------------------------------------
\* The column drawn by distributeNumbersAcrossColumns is a multiple of
\* ColumnStride: Math.random() takes the values k * ColumnStride / COLS.
ColumnStride == 3
\* Of the draws of one call of generateNumbersForColumns, at most this many
\* take the last index of availableNumbers; the others take index 0.
MaxHighDraws == 1

\* ------------------------------------------------------------------------
\* Helpers
\* ------------------------------------------------------------------------
Cols == 0..(COLS - 1)
Rows == 0..(ROWS - 1)

\* Math.floor(Math.random() * COLS), line 105
RandomColumns == { col \in Cols : col % ColumnStride = 0 }

\* Math.floor(Math.random() * validRows.length), line 141: every index
RandomRowIndex(validRows) == 0..(Len(validRows) - 1)

\* Array.prototype.includes on a pushed list
Includes(s, x) == \E k \in 1..Len(s) : s[k] = x

\* splice that removes nothing: a drawn number stays available.
Splice_keeps(s, index) == s

\* Array.prototype.splice(index, 1) with a 0-based index
Splice(s, index) ==
  [k \in 1..(Len(s) - 1) |-> IF k <= index THEN s[k] ELSE s[k + 1]]

RECURSIVE Insert(_, _)
Insert(s, x) ==
  IF s = <<>> THEN <<x>>
  ELSE IF x - s[1] < 0 THEN <<x>> \o s
  ELSE <<s[1]>> \o Insert(Tail(s), x)

\* Array.prototype.sort((a, b) => a - b)
RECURSIVE SortAscending(_)
SortAscending(s) ==
  IF s = <<>> THEN <<>>
  ELSE Insert(SortAscending(Tail(s)), s[1])

\* ------------------------------------------------------------------------
\* assignRowsToColumns
\* ------------------------------------------------------------------------
\* The filter without rowCounts[row] < NUMBERS_PER_ROW: a full row stays
\* eligible.
RowIsValid_uncapped(row, rowCounts, rows) == ~Includes(rows, row)

\* The filter of lines 132-134 over availableRows = [0, 1, 2].
RowIsValid(row, rowCounts, rows) ==
  rowCounts[row] < NUMBERS_PER_ROW /\ ~Includes(rows, row)

RECURSIVE FilterRows(_, _, _)
FilterRows(availableRows, rowCounts, rows) ==
  IF availableRows = <<>> THEN <<>>
  ELSE (IF RowIsValid(Head(availableRows), rowCounts, rows)
        THEN <<Head(availableRows)>> ELSE <<>>)
       \o FilterRows(Tail(availableRows), rowCounts, rows)

ValidRows(rowCounts, rows) == FilterRows(<<0, 1, 2>>, rowCounts, rows)

\* rows.push(selectedRow) without rowCounts[selectedRow]++
PushRow_uncounted(picked, selectedRow) ==
  [rows |-> Append(picked.rows, selectedRow), rowCounts |-> picked.rowCounts]

\* rows.push(selectedRow); rowCounts[selectedRow]++ (lines 144-145)
PushRow(picked, selectedRow) ==
  [rows |-> Append(picked.rows, selectedRow),
   rowCounts |-> [picked.rowCounts EXCEPT ![selectedRow] = @ + 1]]

\* The inner loop (lines 130-146) with todo iterations to go, picked being
\* the rows pushed so far and the row counts: the set of the loop's outcomes
\* over the random row choices.
RECURSIVE PickRows(_, _)
PickRow(todo, picked, validRows) ==
  IF Len(validRows) = 0
  THEN {[thrown |-> TRUE, rows |-> picked.rows, rowCounts |-> picked.rowCounts]}
  ELSE UNION { PickRows(todo - 1, next)
               : next \in { PushRow(picked, validRows[rowIndex + 1])
                            : rowIndex \in RandomRowIndex(validRows) } }

PickRows(todo, picked) ==
  IF todo = 0
  THEN {[thrown |-> FALSE, rows |-> picked.rows, rowCounts |-> picked.rowCounts]}
  ELSE PickRow(todo, picked, ValidRows(picked.rowCounts, picked.rows))

\* rows.sort((a, b) => a - b), line 149
SortRows(rows) == SortAscending(rows)

\* One iteration of the outer loop (lines 123-151) up to the sort of rows:
\* the outcomes of the column's row choices.
AssignColumn(count, rowCounts) ==
  { [thrown |-> p.thrown, rows |-> SortRows(p.rows), rowCounts |-> p.rowCounts]
    : p \in PickRows(count, [rows |-> <<>>, rowCounts |-> rowCounts]) }

\* The final check of lines 154-160.
RowCountsOk(rowCounts) == \A row \in Rows : rowCounts[row] = NUMBERS_PER_ROW

\* throw new Error(...), lines 137 and 156
Thrown(message) == [thrown |-> TRUE, message |-> message]

\* The outer loop from column col on, then the final check: each outcome is
\* a thrown error or a returned assignments array.
RECURSIVE AssignFrom(_, _, _, _)
AssignFrom(columnCounts, col, assignments, rowCounts) ==
  IF col = COLS
  THEN IF RowCountsOk(rowCounts)
       THEN {[thrown |-> FALSE, assignments |-> assignments]}
       ELSE {Thrown("Row has a wrong number of numbers")}
  ELSE UNION { IF p.thrown
               THEN {Thrown("Cannot assign rows - constraint violation")}
               ELSE AssignFrom(columnCounts, col + 1,
                               [assignments EXCEPT ![col] = p.rows],
                               p.rowCounts)
               : p \in AssignColumn(columnCounts[col], rowCounts) }

\* const assignments = []; const rowCounts = [0, 0, 0];
NoAssignments == [col \in Cols |-> <<>>]
ZeroRowCounts == [row \in Rows |-> 0]

\* The count vectors distributeNumbersAcrossColumns can return: 1 in every
\* column and 6 more in the columns the top-up loop draws, at most 3 in each.
RECURSIVE SumFrom(_, _)
SumFrom(columnCounts, col) ==
  IF col = COLS THEN 0 ELSE columnCounts[col] + SumFrom(columnCounts, col + 1)

ColumnCounts ==
  { columnCounts \in [Cols -> 1..3] :
      /\ \A col \in Cols \ RandomColumns : columnCounts[col] = 1
      /\ SumFrom(columnCounts, 0) = TOTAL_NUMBERS }

\* The value the table holds for a key: tables of <<key, value>> pairs keep
\* what the functions of this module return for these count vectors.
Lookup(table, key) == (CHOOSE entry \in table : entry[1] = key)[2]

AssignedRows ==
  { <<columnCounts, AssignFrom(columnCounts, 0, NoAssignments, ZeroRowCounts)>>
    : columnCounts \in ColumnCounts }

\* The outcomes of assignRowsToColumns(columnCounts) over its random choices.
assignRowsToColumns(columnCounts) ==
  IF columnCounts \in ColumnCounts
  THEN Lookup(AssignedRows, columnCounts)
  ELSE AssignFrom(columnCounts, 0, NoAssignments, ZeroRowCounts)

\* ------------------------------------------------------------------------
\* generateNumbersForColumns
\* ------------------------------------------------------------------------
\* The mapping (_, i) => min + i + 1: every range shifted up by one.
AvailableNumbers_shifted(col) ==
  LET min == COLUMN_RANGES[col][1]
      max == COLUMN_RANGES[col][2]
  IN [k \in 1..(max - min + 1) |-> min + k]

\* Array.from({ length: max - min + 1 }, (_, i) => min + i)
AvailableNumbers(col) ==
  LET min == COLUMN_RANGES[col][1]
      max == COLUMN_RANGES[col][2]
  IN [k \in 1..(max - min + 1) |-> min + (k - 1)]

\* The draws of one call, each named by its column and its iteration i.
Draws(columnCounts) ==
  { <<col, i>> : col \in Cols, i \in 0..2 } \cap
  { d \in Cols \X (0..2) : d[2] < columnCounts[d[1]] }

\* The subsets of S of at most k elements.
RECURSIVE SubsetsUpTo(_, _)
SubsetsUpTo(S, k) ==
  IF k = 0 THEN {{}}
  ELSE { T \cup U : T \in SubsetsUpTo(S, k - 1), U \in {{}} \cup { {x} : x \in S } }

\* Math.floor(Math.random() * (availableNumbers.length - 1)): the last
\* index is never drawn.
RandomIndex_neverLast(col, i, availableNumbers, high) == {0}

\* Math.floor(Math.random() * availableNumbers.length), line 184: the last
\* index for a draw in high, index 0 for the others.
RandomIndex(col, i, availableNumbers, high) ==
  IF <<col, i>> \in high THEN {Len(availableNumbers) - 1} ELSE {0}

\* numbers.push(availableNumbers[randomIndex]);
\* availableNumbers.splice(randomIndex, 1) (lines 185-186)
PushNumber(drawn, randomIndex) ==
  [numbers |-> Append(drawn.numbers, drawn.availableNumbers[randomIndex + 1]),
   availableNumbers |-> Splice(drawn.availableNumbers, randomIndex)]

\* The inner loop (lines 183-187) of column col from iteration i on: the
\* lists of numbers it can end with.
RECURSIVE DrawNumbers(_, _, _, _, _)
DrawNumbers(col, i, count, drawn, high) ==
  IF i = count THEN {drawn.numbers}
  ELSE UNION { DrawNumbers(col, i + 1, count, next, high)
               : next \in { PushNumber(drawn, randomIndex)
                            : randomIndex \in
                                RandomIndex(col, i, drawn.availableNumbers, high) } }

\* The numbers left in the order they were drawn.
SortNumbers_omitted(numbers) == numbers

\* numbers.sort((a, b) => a - b), line 190
SortNumbers(numbers) == SortAscending(numbers)

\* generateNumbersForColumns(columnCounts) with the draws fixed by high: each
\* column then has one list of numbers.
NumbersWith(columnCounts, high) ==
  [col \in Cols |->
     SortNumbers(CHOOSE numbers \in
                   DrawNumbers(col, 0, columnCounts[col],
                               [numbers |-> <<>>,
                                availableNumbers |-> AvailableNumbers(col)],
                               high) : TRUE)]

NumbersOver(columnCounts) ==
  { NumbersWith(columnCounts, high)
    : high \in SubsetsUpTo(Draws(columnCounts), MaxHighDraws) }

GeneratedNumbers ==
  { <<columnCounts, NumbersOver(columnCounts)>> : columnCounts \in ColumnCounts }

\* The results of generateNumbersForColumns(columnCounts) over its draws.
generateNumbersForColumns(columnCounts) ==
  IF columnCounts \in ColumnCounts
  THEN Lookup(GeneratedNumbers, columnCounts)
  ELSE NumbersOver(columnCounts)

\* ------------------------------------------------------------------------
\* buildGrid
\* ------------------------------------------------------------------------
\* buildGrid's first parameter, columnRowAssignments in the source, is written
\* assignments: columnRowAssignments names the state of createTicketGrid.
\*
\* Array(length).fill(null).map(...): the array holding f[from], ...,
\* f[to - 1] at the indices from..(to - 1), every element stored.
RECURSIVE ArrayFrom(_, _, _)
ArrayFrom(f, from, to) ==
  IF from + 1 = to THEN from :> f[from]
  ELSE (from :> f[from]) @@ ArrayFrom(f, from + 1, to)

\* The inner loop started at i = 1: the first number of each column is lost.
buildGrid_skipsFirst(assignments, columnNumbers) ==
  [row \in Rows |->
     [col \in Cols |->
        LET rows == assignments[col]
            numbers == columnNumbers[col]
        IN IF \E i \in 2..Len(rows) : rows[i] = row
           THEN numbers[CHOOSE i \in 2..Len(rows) : rows[i] = row]
           ELSE null]]

\* grid[row][i] = number in place of grid[row][col]: the loop index taken
\* for the column; the later column overwrites the earlier one.
buildGrid_byIndex(assignments, columnNumbers) ==
  [row \in Rows |->
     [col \in Cols |->
        LET writers == { c \in Cols :
                          /\ col + 1 <= Len(assignments[c])
                          /\ assignments[c][col + 1] = row }
        IN IF writers = {} THEN null
           ELSE LET last == CHOOSE c \in writers : \A d \in writers : d <= c
                IN columnNumbers[last][col + 1]]]

buildGrid(assignments, columnNumbers) ==
  ArrayFrom(
    [row \in Rows |->
       ArrayFrom(
         [col \in Cols |->
            LET rows == assignments[col]
                numbers == columnNumbers[col]
            IN IF \E i \in 1..Len(rows) : rows[i] = row
               THEN numbers[CHOOSE i \in 1..Len(rows) : rows[i] = row]
               ELSE null],
         0, COLS)],
    0, ROWS)

\* createTicketGrid for the counts that distributeNumbersAcrossColumns
\* returned: the grids it can return (lines 76-85), over the random choices
\* of assignRowsToColumns and generateNumbersForColumns.
createTicketGrid(columnCounts) ==
  { buildGrid(out.assignments, columnNumbers)
    : out \in { o \in assignRowsToColumns(columnCounts) : ~o.thrown },
      columnNumbers \in generateNumbersForColumns(columnCounts) }

\* ------------------------------------------------------------------------
\* isValidTicket
\* ------------------------------------------------------------------------
\* grid is a function on row indices of functions on column indices.
RowLength(g, row) == Cardinality(DOMAIN g[row])

RowNumberCount(g, row) == Cardinality({col \in DOMAIN g[row] : g[row][col] # null})

ColNumberCount(g, col) == Cardinality({row \in DOMAIN g : g[row][col] # null})

TotalNumbers(g) ==
  Cardinality({rc \in (DOMAIN g) \X Cols : g[rc[1]][rc[2]] # null})

\* The non-empty values of a column, top row first (lines 250-255).
RECURSIVE ColumnNumbersFrom(_, _, _)
ColumnNumbersFrom(g, col, row) ==
  IF row = ROWS THEN <<>>
  ELSE (IF g[row][col] # null THEN <<g[row][col]>> ELSE <<>>)
       \o ColumnNumbersFrom(g, col, row + 1)

\* isValidTicket without its rule 5.
ColumnAscending_skipped(g, col) == TRUE

\* Rule 5 (lines 249-260).
ColumnAscending(g, col) ==
  LET columnNumbers == ColumnNumbersFrom(g, col, 0)
  IN \A i \in 2..Len(columnNumbers) : ~(columnNumbers[i] <= columnNumbers[i - 1])

\* A range test that excludes the two ends of a column's range.
ColumnInRange_exclusive(g, col) ==
  LET min == COLUMN_RANGES[col][1]
      max == COLUMN_RANGES[col][2]
  IN \A row \in Rows :
       LET cell == g[row][col]
       IN ~(cell # null /\ (cell <= min \/ cell >= max))

\* Rule 6 (lines 262-271).
ColumnInRange(g, col) ==
  LET min == COLUMN_RANGES[col][1]
      max == COLUMN_RANGES[col][2]
  IN \A row \in Rows :
       LET cell == g[row][col]
       IN ~(cell # null /\ (cell < min \/ cell > max))

\* new Set(numbers).size === numbers.length
AllUnique(g) ==
  Cardinality({g[rc[1]][rc[2]] : rc \in {x \in Rows \X Cols : g[x[1]][x[2]] # null}})
    = TotalNumbers(g)

isValidTicket(g) ==
  /\ Cardinality(DOMAIN g) = ROWS
  /\ \A row \in DOMAIN g : RowLength(g, row) = COLS
  /\ \A row \in Rows : RowNumberCount(g, row) = NUMBERS_PER_ROW
  /\ \A col \in Cols : ColNumberCount(g, col) >= 1 /\ ColNumberCount(g, col) <= 3
  /\ TotalNumbers(g) = TOTAL_NUMBERS
  /\ \A col \in Cols : ColumnAscending(g, col)
  /\ \A col \in Cols : ColumnInRange(g, col)
  /\ AllUnique(g)

\* The grids generateLotoTicket can return (lines 56-59).
GeneratedGrids ==
  { g \in UNION { createTicketGrid(columnCounts) : columnCounts \in ColumnCounts }
      : isValidTicket(g) }

\* ------------------------------------------------------------------------
\* serializeTicket and hashTicket
\* ------------------------------------------------------------------------
Digits == <<"0", "1", "2", "3", "4", "5", "6", "7", "8", "9">>

\* The decimal text of a number, as JSON.stringify writes it.
RECURSIVE JsonNumber(_)
JsonNumber(n) ==
  IF n < 10 THEN <<Digits[n + 1]>>
  ELSE JsonNumber(n \div 10) \o <<Digits[(n % 10) + 1]>>

\* A number written by its last digit only.
JsonCell_lastDigit(cell) ==
  IF cell = null THEN <<"n", "u", "l", "l">> ELSE <<Digits[(cell % 10) + 1]>>

JsonCell(cell) == IF cell = null THEN <<"n", "u", "l", "l">> ELSE JsonNumber(cell)

\* The JSON text of items[from], ..., items[to - 1], separated by commas.
RECURSIVE JsonItems(_, _, _)
JsonItems(items, from, to) ==
  IF from = to THEN <<>>
  ELSE items[from]
       \o (IF from + 1 = to THEN <<>> ELSE <<",">>)
       \o JsonItems(items, from + 1, to)

JsonArray(items, length) == <<"[">> \o JsonItems(items, 0, length) \o <<"]">>

\* JSON.stringify(grid): the characters of the text.
serializeTicket(g) ==
  JsonArray([row \in Rows |-> JsonArray([col \in Cols |-> JsonCell(g[row][col])], COLS)],
            ROWS)

\* JSON.parse on the texts JSON.stringify writes for grids: an array, null or
\* a number, told apart by the first character. Each parser gives the value
\* read and the position after it.
DigitValue ==
  "0" :> 0 @@ "1" :> 1 @@ "2" :> 2 @@ "3" :> 3 @@ "4" :> 4 @@
  "5" :> 5 @@ "6" :> 6 @@ "7" :> 7 @@ "8" :> 8 @@ "9" :> 9

RECURSIVE ParseNumber(_, _, _)
ParseNumber(text, pos, value) ==
  IF pos <= Len(text) /\ text[pos] \in DOMAIN DigitValue
  THEN ParseNumber(text, pos + 1, 10 * value + DigitValue[text[pos]])
  ELSE [value |-> value, next |-> pos]

\* The array whose elements are those of the sequence items, index 0 first.
ArrayOf(items) == [index \in 0..(Len(items) - 1) |-> items[index + 1]]

RECURSIVE ParseValue(_, _)
RECURSIVE ParseElements(_, _, _)
\* The elements of an array from position pos on, items being those read so
\* far, up to and including the closing bracket.
ParseElements(text, pos, items) ==
  CHOOSE read \in
    { IF text[item.next] = ","
      THEN ParseElements(text, item.next + 1, Append(items, item.value))
      ELSE [value |-> ArrayOf(Append(items, item.value)), next |-> item.next + 1]
      : item \in {ParseValue(text, pos)} } : TRUE

ParseValue(text, pos) ==
  CASE text[pos] = "[" ->
         IF text[pos + 1] = "]"
         THEN [value |-> ArrayOf(<<>>), next |-> pos + 2]
         ELSE ParseElements(text, pos + 1, <<>>)
    [] text[pos] = "n" -> [value |-> null, next |-> pos + 4]
    [] OTHER -> ParseNumber(text, pos, 0)

\* JSON.parse(serialized)
deserializeTicket(serialized) == ParseValue(serialized, 1).value

\* crypto.subtle.digest('SHA-256', data): a digest is determined by its input
\* and, collisions being out of reach, determines it.
Sha256(data) == [sha256 |-> data]

hashTicket(ticketData) == Sha256(serializeTicket(ticketData))

\* ------------------------------------------------------------------------
\* Win detection (src/lib/loto/win-detection.ts)
\* ------------------------------------------------------------------------
\* row.filter((cell) => cell !== null), as the positions it keeps
RowNumbers(row) == { col \in DOMAIN row : row[col] # null }

\* A row counts as complete when one of its numbers is marked.
isRowComplete_some(row, markedNumbers) ==
  \E col \in RowNumbers(row) : row[col] \in markedNumbers

\* A row counts as complete without the test of rowNumbers.length.
isRowComplete_emptyCounts(row, markedNumbers) ==
  \A col \in RowNumbers(row) : row[col] \in markedNumbers

\* rowNumbers.length > 0 && rowNumbers.every((num) => markedNumbers.has(num))
isRowComplete(row, markedNumbers) ==
  /\ Cardinality(RowNumbers(row)) > 0
  /\ \A col \in RowNumbers(row) : row[col] \in markedNumbers

\* ticketData.forEach((row, index) => ...) from index on: the indices pushed.
RECURSIVE CompletedRowsFrom(_, _, _)
CompletedRowsFrom(ticketData, markedNumbers, index) ==
  IF index \notin DOMAIN ticketData THEN <<>>
  ELSE (IF isRowComplete(ticketData[index], markedNumbers)
        THEN <<index>> ELSE <<>>)
       \o CompletedRowsFrom(ticketData, markedNumbers, index + 1)

\* The pattern of a line by its row index (lines 81-86 and 99-104).
LinePattern(rowIndex) ==
  IF rowIndex = 0 THEN "top-line"
  ELSE IF rowIndex = 1 THEN "middle-line"
  ELSE "bottom-line"

\* The last completed row instead of completedRows[0].
FirstCompleted_last(completedRows) == completedRows[Len(completedRows)]

\* completedRows[0], lines 80 and 98
FirstCompleted(completedRows) == completedRows[1]

checkWinCondition(ticketData, markedNumbers) ==
  LET completedRows == CompletedRowsFrom(ticketData, markedNumbers, 0)
  IN IF Len(completedRows) = 0
     THEN [hasWon |-> FALSE, completedRows |-> <<>>]
     ELSE IF Len(completedRows) = 3
     THEN [hasWon |-> TRUE, pattern |-> "full-house",
           completedRows |-> completedRows]
     ELSE [hasWon |-> TRUE, pattern |-> LinePattern(FirstCompleted(completedRows)),
           completedRows |-> completedRows]

\* countUnmarked(row), lines 167-171
countUnmarked(row, markedNumbers) ==
  Cardinality({ col \in RowNumbers(row) : row[col] \notin markedNumbers })

\* ticketData.flat().filter(cell !== null && !markedNumbers.has(cell)).length
FlatUnmarked(ticketData, markedNumbers) ==
  Cardinality({ rc \in UNION { { <<row, col>> : col \in RowNumbers(ticketData[row]) }
                              : row \in DOMAIN ticketData } :
                ticketData[rc[1]][rc[2]] \notin markedNumbers })

getNumbersToWin(ticketData, markedNumbers) ==
  [topLine |-> countUnmarked(ticketData[0], markedNumbers),
   middleLine |-> countUnmarked(ticketData[1], markedNumbers),
   bottomLine |-> countUnmarked(ticketData[2], markedNumbers),
   fullHouse |-> FlatUnmarked(ticketData, markedNumbers)]

\* ------------------------------------------------------------------------
\* State of one call of generateLotoTicket
\* ------------------------------------------------------------------------
VARIABLES
  pc,                   \* position in generateLotoTicket / createTicketGrid
  attempt,              \* the loop counter of generateLotoTicket
  counts,               \* distributeNumbersAcrossColumns: counts
  remaining,            \* distributeNumbersAcrossColumns: remaining
  columnRowAssignments, \* createTicketGrid: result of assignRowsToColumns
  grid,                 \* generateLotoTicket: the grid the attempt has built
  error,                \* the error bound by `catch (error)`, line 60
  result,               \* what generateLotoTicket returned or threw
  rooms,                \* table rooms: the set of its rows
  tickets,              \* table tickets: the set of its rows
  join,                 \* per player: the running call of joinRoomAndGetTicket
  called_numbers,       \* table called_numbers: the set of its rows
  call,                 \* per caller: the running POST /api/rooms/[id]/numbers
  candidate,            \* a grid passed to isValidTicket
  verdict,              \* what isValidTicket returned for candidate
  edits,                \* how many cells or lengths of candidate were changed
  ticket,               \* player page: the ticket the join returned
  calledNumbers,        \* player page: the numbers of the last fetch
  manuallyMarkedNumbers,\* player page: the numbers the player has marked
  isMarkingMode,        \* player page: marking mode on or off
  winResult,            \* player page: checkWinCondition(...) of the render
  numbersToWin          \* player page: getNumbersToWin(...) of the render

genVars == <<pc, attempt, counts, remaining, columnRowAssignments, grid, error,
             result>>

storeVars == <<rooms, tickets, join>>

apiVars == <<called_numbers, call>>

validatorVars == <<candidate, verdict, edits>>

pageVars == <<ticket, calledNumbers, manuallyMarkedNumbers, isMarkingMode,
              winResult, numbersToWin>>

vars == <<genVars, storeVars, apiVars, validatorVars, pageVars>>

NoCounts == [col \in Cols |-> 0]
NoLists == NoAssignments
NoGrid == [row \in Rows |-> [col \in Cols |-> null]]

ExhaustedMessage == "Failed to generate valid ticket after maximum attempts"

GenInit ==
  /\ pc = "loop"
  /\ attempt = 0
  /\ counts = NoCounts
  /\ remaining = TOTAL_NUMBERS
  /\ columnRowAssignments = NoLists
  /\ grid = NoGrid
  /\ error = "none"
  /\ result = "none"


\* attempt < maxAttempts - 1: the loop gives up one attempt early.
LoopContinues_early(a) == a < maxAttempts - 1

\* The loop condition of line 54.
LoopContinues(a) == a < maxAttempts

\* The first pass of distributeNumbersAcrossColumns (lines 98-101).
FirstPass == [col \in Cols |-> 1]

\* counts[col] < 1: no column ever takes a further number.
BelowCap_never(count) == count < 1

\* counts[col] < 4: a column takes up to three further numbers.
BelowCap_four(count) == count < 4

\* counts[col] < 3, line 106
BelowCap(count) == count < 3

\* for (let attempt = 0; attempt < maxAttempts; attempt++) { try {
\* createTicketGrid() -> distributeNumbersAcrossColumns(): the first pass.
BeginAttempt ==
  /\ pc = "loop"
  /\ LoopContinues(attempt)
  /\ counts' = FirstPass
  /\ remaining' = TOTAL_NUMBERS - COLS
  /\ columnRowAssignments' = NoLists
  /\ grid' = NoGrid
  /\ error' = "none"
  /\ pc' = "distribute"
  /\ UNCHANGED <<attempt, result>>
  /\ UNCHANGED <<storeVars, apiVars, validatorVars, pageVars>>

\* One iteration of the while loop of distributeNumbersAcrossColumns.
TopUp(col) ==
  /\ pc = "distribute"
  /\ remaining > 0
  /\ IF BelowCap(counts[col])
     THEN /\ counts' = [counts EXCEPT ![col] = @ + 1]
          /\ remaining' = remaining - 1
     ELSE UNCHANGED <<counts, remaining>>
  /\ UNCHANGED <<pc, attempt, columnRowAssignments, grid, error, result>>
  /\ UNCHANGED <<storeVars, apiVars, validatorVars, pageVars>>

\* catch (error) { throw error; }: the attempt's error reaches the caller.
CatchAndContinue_rethrows(message) ==
  /\ error' = message
  /\ result' = message
  /\ pc' = "thrown"
  /\ UNCHANGED attempt

\* catch (error) { continue; } and the loop's attempt++
CatchAndContinue(message) ==
  /\ error' = message
  /\ attempt' = attempt + 1
  /\ pc' = "loop"
  /\ UNCHANGED result

\* The while loop ends and assignRowsToColumns(columnCounts) runs; what it
\* throws is caught at line 60.
AssignRows ==
  /\ pc = "distribute"
  /\ ~(remaining > 0)
  /\ \E out \in assignRowsToColumns(counts) :
       IF out.thrown
       THEN /\ CatchAndContinue(out.message)
            /\ UNCHANGED columnRowAssignments
       ELSE /\ columnRowAssignments' = out.assignments
            /\ pc' = "numbers"
            /\ UNCHANGED <<attempt, error, result>>
  /\ UNCHANGED <<counts, remaining, grid>>
  /\ UNCHANGED <<storeVars, apiVars, validatorVars, pageVars>>

\* The rest of the attempt: generateNumbersForColumns(columnCounts),
\* buildGrid(...) and `return grid` of createTicketGrid, where its locals end;
\* then if (isValidTicket(grid)) return grid; otherwise the loop's attempt++.
CompleteAttempt ==
  /\ pc = "numbers"
  /\ \E columnNumbers \in generateNumbersForColumns(counts) :
       grid' = buildGrid(columnRowAssignments, columnNumbers)
  /\ IF isValidTicket(grid')
     THEN /\ pc' = "returned"
          /\ result' = "grid"
          /\ UNCHANGED attempt
     ELSE /\ pc' = "loop"
          /\ attempt' = attempt + 1
          /\ UNCHANGED result
  /\ counts' = NoCounts
  /\ columnRowAssignments' = NoLists
  /\ UNCHANGED <<remaining, error>>
  /\ UNCHANGED <<storeVars, apiVars, validatorVars, pageVars>>

\* throw new Error('Failed to generate valid ticket after maximum attempts')
Exhausted ==
  /\ pc = "loop"
  /\ ~LoopContinues(attempt)
  /\ pc' = "thrown"
  /\ result' = ExhaustedMessage
  /\ UNCHANGED <<attempt, counts, remaining, columnRowAssignments, grid, error>>
  /\ UNCHANGED <<storeVars, apiVars, validatorVars, pageVars>>

\* ------------------------------------------------------------------------
\* The ticket store: tables rooms and tickets, joinRoomAndGetTicket
\* ------------------------------------------------------------------------
createTicketMaxAttempts == 10

\* The rooms that get created and the players that join them.
RoomIds == {"room-1"}
Players == {"player-1", "player-2"}

RoomCodes == [id \in RoomIds |-> <<"CODE", id>>]
\* What a caller passes as roomCode: the code of a room, the same code in
\* lower case, or the code of no room.
CodeInputs ==
  { RoomCodes[id] : id \in RoomIds } \cup { <<"code", id>> : id \in RoomIds }
    \cup { <<"CODE", "none">> }
\* The text of a room's id (a UUID: 36 characters, its letters in lower case),
\* where a room code has at most 8 characters (VARCHAR(8)).
IdText(id) == <<"uuid", id>>

\* String.prototype.toUpperCase on these texts.
ToUpperCase(text) ==
  CASE text[1] = "code" -> <<"CODE", text[2]>>
    [] text[1] = "uuid" -> <<"UUID", text[2]>>
    [] OTHER -> text
Statuses == {"waiting", "active", "completed"}

\* What createTicket gets from generateLotoTicket() and hashTicket(ticketData):
\* grids generateLotoTicket returns (one row assignment, the high draws in
\* column 0).
PoolCounts == [col \in Cols |-> IF col \in RandomColumns THEN 3 ELSE 1]
PoolAssignments ==
  (CHOOSE out \in assignRowsToColumns(PoolCounts) : ~out.thrown).assignments
TicketPool ==
  { buildGrid(PoolAssignments, NumbersWith(PoolCounts, high))
    : high \in SubsetsUpTo({ <<0, i>> : i \in 0..2 }, MaxHighDraws) }

\* Who posts to /api/rooms/[id]/numbers: the host of the rooms and a guest,
\* each with one request in progress at a time; the hostId of a body is
\* whatever the client sends.
Hosts == {"host-1"}
Callers == Hosts \cup {"guest-1"}

Idle == [pc |-> "idle"]

StoreInit ==
  /\ rooms = {}
  /\ tickets = {}
  /\ join = [p \in Players |-> Idle]

\* No request to call a number has been made.
ApiInit ==
  /\ called_numbers = {}
  /\ call = [h \in Callers |-> Idle]

\* isValidTicket has not been called from outside generateLotoTicket.
ValidatorIdle ==
  /\ candidate = NoGrid
  /\ verdict = FALSE
  /\ edits = 0

\* The player page before its join has answered: the useState(...) values.
PageIdle ==
  /\ ticket = null
  /\ calledNumbers = <<>>
  /\ manuallyMarkedNumbers = {}
  /\ isMarkingMode = FALSE
  /\ winResult = [hasWon |-> FALSE, completedRows |-> <<>>]
  /\ numbersToWin = null

Init == GenInit /\ StoreInit /\ ApiInit /\ ValidatorIdle /\ PageIdle

\* createRoom: INSERT INTO rooms, status 'waiting'.
CreateRoom(id) ==
  /\ \A room \in rooms : room.id # id
  /\ \E host_id \in Hosts :
       rooms' = rooms \cup {[id |-> id, room_code |-> RoomCodes[id],
                               host_id |-> host_id, status |-> "waiting"]}
  /\ UNCHANGED <<tickets, join, genVars, apiVars, validatorVars, pageVars>>

\* updateRoomStatus: UPDATE rooms SET status WHERE id = roomId.
UpdateRoomStatus(roomId, status) ==
  /\ \E room \in rooms : room.id = roomId
  /\ rooms' = { IF room.id = roomId THEN [room EXCEPT !.status = status] ELSE room
                : room \in rooms }
  /\ UNCHANGED <<tickets, join, genVars, apiVars, validatorVars, pageVars>>

\* A call joinRoomAndGetTicket(roomCode, playerId) begins.
StartJoin(p, roomCode) ==
  /\ join[p].pc = "idle"
  /\ join' = [join EXCEPT ![p] = [pc |-> "getRoomByCode", roomCode |-> roomCode]]
  /\ UNCHANGED <<rooms, tickets, genVars, apiVars, validatorVars, pageVars>>

\* POST /api/rooms/[id]/join with body { playerId }: 400 without a room id or
\* a playerId, else joinRoomAndGetTicket(roomId, playerId, ...) with the id of
\* the URL as its roomCode.
PostJoin(p, roomId, playerId) ==
  /\ join[p].pc = "idle"
  /\ join' = [join EXCEPT ![p] =
       IF roomId = ""
       THEN [pc |-> "rejected", status |-> 400, error |-> "Room ID is required"]
       ELSE IF playerId = ""
       THEN [pc |-> "rejected", status |-> 400, error |-> "playerId is required"]
       ELSE [pc |-> "getRoomByCode", roomCode |-> IdText(roomId)]]
  /\ UNCHANGED <<rooms, tickets, genVars, apiVars, validatorVars, pageVars>>

\* What the route answers once the call has ended: the result as JSON (status
\* 200), or the thrown error's message with status 500.
JoinResponse(p) ==
  CASE join[p].pc = "done" ->
         [status |-> 200, room |-> join[p].room, ticket |-> join[p].ticket,
          is_new_ticket |-> join[p].is_new_ticket]
    [] join[p].pc = "failed" -> [status |-> 500, error |-> join[p].error]
    [] join[p].pc = "rejected" ->
         [status |-> join[p].status, error |-> join[p].error]

\* The error a call ends with.
JoinFailed(p, message) ==
  [pc |-> "failed", error |-> message]

\* A room that stays joinable whatever its status.
GameEnded_never(room) == FALSE

\* room.status === 'completed', line 335
GameEnded(room) == room.status = "completed"

\* getRoomByCode(roomCode) and steps 1 and 2 of joinRoomAndGetTicket.
GetRoomByCode(p) ==
  /\ join[p].pc = "getRoomByCode"
  /\ LET found == { room \in rooms :
                      room.room_code = ToUpperCase(join[p].roomCode) }
     IN IF found = {}
        THEN join' = [join EXCEPT ![p] =
                        JoinFailed(p, "Room not found. Please check the room code.")]
        ELSE LET room == CHOOSE r \in found : TRUE
             IN IF GameEnded(room)
                THEN join' = [join EXCEPT ![p] =
                         JoinFailed(p, "This game has already ended. You cannot join.")]
                ELSE join' = [join EXCEPT ![p] =
                                [pc |-> "getPlayerTicket", room |-> room]]
  /\ UNCHANGED <<rooms, tickets, genVars, apiVars, validatorVars, pageVars>>

\* A select that never finds the player's ticket.
PlayerTickets_none(roomId, playerId) == {}

\* SELECT * FROM tickets WHERE room_id = ? AND player_id = ? with .single():
\* the row if there is exactly one, else PGRST116.
PlayerTickets(roomId, playerId) ==
  { row \in tickets : row.room_id = roomId /\ row.player_id = playerId }

\* getPlayerTicket(room.id, playerId) and the test of step 4.
GetPlayerTicket(p) ==
  /\ join[p].pc = "getPlayerTicket"
  /\ LET rows == PlayerTickets(join[p].room.id, p)
     IN IF Cardinality(rows) = 1
        THEN join' = [join EXCEPT ![p] =
                        [pc |-> "done", room |-> @.room,
                         ticket |-> CHOOSE row \in rows : TRUE,
                         is_new_ticket |-> FALSE]]
        ELSE join' = [join EXCEPT ![p] =
                        [pc |-> "createTicket", room |-> @.room,
                         attempt |-> 0, lastError |-> "null"]]
  /\ UNCHANGED <<rooms, tickets, genVars, apiVars, validatorVars, pageVars>>

\* A retry that inserts the rejected row again instead of going back to
\* generateLotoTicket().
NextTicketAttempt_sameGrid(p, message) ==
  IF join[p].pc = "insert"
  THEN join' = [join EXCEPT ![p] =
                  [@ EXCEPT !.attempt = @ + 1, !.lastError = message]]
  ELSE join' = [join EXCEPT ![p] =
                  [pc |-> "createTicket", room |-> @.room,
                   attempt |-> @.attempt + 1, lastError |-> message]]

\* catch (error) { lastError = error } and attempt++ of createTicket; the
\* `continue` of line 259 after lastError is set.
NextTicketAttempt(p, message) ==
  join' = [join EXCEPT ![p] =
             [pc |-> "createTicket", room |-> @.room,
              attempt |-> @.attempt + 1, lastError |-> message]]

\* createTicket: generateLotoTicket() and hashTicket(ticketData); what
\* generateLotoTicket throws is caught at line 265.
GenerateTicket(p) ==
  /\ join[p].pc = "createTicket"
  /\ join[p].attempt < createTicketMaxAttempts
  /\ \/ \E generated \in TicketPool :
          join' = [join EXCEPT ![p] =
                     [pc |-> "insert", room |-> @.room,
                      attempt |-> @.attempt, lastError |-> @.lastError,
                      ticketData |-> generated,
                      ticketHash |-> hashTicket(generated)]]
     \/ NextTicketAttempt(p, ExhaustedMessage)
  /\ UNCHANGED <<rooms, tickets, genVars, apiVars, validatorVars, pageVars>>

\* Table tickets without its UNIQUE constraint.
UniqueViolation_absent(rows, roomId, ticketHash) == FALSE

\* UNIQUE(room_id, ticket_hash) of table tickets.
UniqueViolation(rows, roomId, ticketHash) ==
  \E row \in rows : row.room_id = roomId /\ row.ticket_hash = ticketHash

\* createTicket: INSERT INTO tickets and the handling of its error. The row
\* gets a fresh id (uuid_generate_v4()).
InsertTicket(p) ==
  /\ join[p].pc = "insert"
  /\ \/ /\ UniqueViolation(tickets, join[p].room.id, join[p].ticketHash)
        /\ NextTicketAttempt(p, "Duplicate ticket generated")
        /\ UNCHANGED tickets
     \/ /\ NextTicketAttempt(p, "Failed to create ticket")
        /\ UNCHANGED tickets
     \/ /\ ~UniqueViolation(tickets, join[p].room.id, join[p].ticketHash)
        /\ LET row == [id |-> Cardinality(tickets) + 1,
                       room_id |-> join[p].room.id,
                       player_id |-> p,
                       ticket_data |-> join[p].ticketData,
                       ticket_hash |-> join[p].ticketHash]
           IN /\ tickets' = tickets \cup {row}
              /\ join' = [join EXCEPT ![p] =
                            [pc |-> "done", room |-> @.room,
                             ticket |-> row, is_new_ticket |-> TRUE]]
  /\ UNCHANGED <<rooms, genVars, apiVars, validatorVars, pageVars>>

\* createTicket: throw new Error('Failed to generate unique ticket after ...')
CreateTicketFails(p) ==
  /\ join[p].pc = "createTicket"
  /\ ~(join[p].attempt < createTicketMaxAttempts)
  /\ join' = [join EXCEPT ![p] = JoinFailed(p, "Failed to generate unique ticket")]
  /\ UNCHANGED <<rooms, tickets, genVars, apiVars, validatorVars, pageVars>>

\* The call has returned or thrown; the player may call again.
FinishJoin(p) ==
  /\ join[p].pc \in {"done", "failed", "rejected"}
  /\ join' = [join EXCEPT ![p] = Idle]
  /\ UNCHANGED <<rooms, tickets, genVars, apiVars, validatorVars, pageVars>>

StoreNext ==
  \/ \E id \in RoomIds : CreateRoom(id)
  \/ \E roomId \in RoomIds, status \in Statuses : UpdateRoomStatus(roomId, status)
  \/ \E p \in Players, roomCode \in CodeInputs : StartJoin(p, roomCode)
  \/ \E p \in Players, roomId \in RoomIds \cup {""} :
       \E playerId \in {p, ""} : PostJoin(p, roomId, playerId)
  \/ \E p \in Players : GetRoomByCode(p)
  \/ \E p \in Players : GetPlayerTicket(p)
  \/ \E p \in Players : GenerateTicket(p)
  \/ \E p \in Players : InsertTicket(p)
  \/ \E p \in Players : CreateTicketFails(p)
  \/ \E p \in Players : FinishJoin(p)

StoreSpec == Init /\ [][StoreNext]_vars

\* ------------------------------------------------------------------------
\* POST /api/rooms/[id]/numbers
\* ------------------------------------------------------------------------
\* The numbers of the request bodies; 0 and 91 fail the validation.
BodyNumbers == {0, 1, 2, 91}
\* No request begins once the table holds this many rows.
MaxCalledNumbers == 2

\* return NextResponse.json(body, { status })
Responded(request, status, body) ==
  [pc |-> "responded", roomId |-> request.roomId, number |-> request.number,
   hostId |-> request.hostId, status |-> status, body |-> body]

\* The validation of lines 26-52 and the request to select the room.
PostNumber(c, roomId, number, hostId) ==
  /\ call[c].pc = "idle"
  /\ Cardinality(called_numbers) < MaxCalledNumbers
  /\ LET request == [roomId |-> roomId, number |-> number, hostId |-> hostId]
     IN call' = [call EXCEPT ![c] =
          IF roomId = "" THEN Responded(request, 400, "Room ID is required")
          ELSE IF number = 0
          THEN Responded(request, 400, "Valid number is required")
          ELSE IF number < 1 \/ number > 90
          THEN Responded(request, 400, "Number must be between 1 and 90")
          ELSE IF hostId = ""
          THEN Responded(request, 400, "Host ID is required")
          ELSE [pc |-> "selectRoom", roomId |-> roomId, number |-> number,
                hostId |-> hostId]]
  /\ UNCHANGED <<called_numbers, genVars, storeVars, validatorVars, pageVars>>

\* Anyone may ask for a number to be called.
IsHost_anyone(roomData, hostId) == TRUE

\* roomData.host_id !== hostId, line 67
IsHost(roomData, hostId) == roomData.host_id = hostId

\* SELECT * FROM rooms WHERE id = roomId, and the checks of lines 61-79.
SelectRoom(c) ==
  /\ call[c].pc = "selectRoom"
  /\ LET found == { room \in rooms : room.id = call[c].roomId }
     IN call' = [call EXCEPT ![c] =
          IF found = {} THEN Responded(call[c], 404, "Room not found")
          ELSE LET roomData == CHOOSE room \in found : TRUE
               IN IF ~IsHost(roomData, call[c].hostId)
                  THEN Responded(call[c], 403, "Only the host can call numbers")
                  ELSE IF roomData.status = "completed"
                  THEN Responded(call[c], 400, "Game has already ended")
                  ELSE [pc |-> "selectExisting", roomId |-> call[c].roomId,
                        number |-> call[c].number, hostId |-> call[c].hostId,
                        roomData |-> roomData]]
  /\ UNCHANGED <<called_numbers, genVars, storeVars, validatorVars, pageVars>>

\* SELECT * FROM called_numbers WHERE room_id = ? AND number = ? with
\* .single(): a row only when exactly one row matches (lines 82-94).
SelectExisting(c) ==
  /\ call[c].pc = "selectExisting"
  /\ LET matching == { row \in called_numbers :
                         /\ row.room_id = call[c].roomId
                         /\ row.number = call[c].number }
     IN call' = [call EXCEPT ![c] =
          IF Cardinality(matching) = 1
          THEN Responded(call[c], 400, "This number has already been called")
          ELSE [@ EXCEPT !.pc = IF call[c].roomData.status = "waiting"
                                THEN "updateRoom" ELSE "insert"]]
  /\ UNCHANGED <<called_numbers, genVars, storeVars, validatorVars, pageVars>>

\* UPDATE rooms SET status = 'active' WHERE id = roomId (lines 97-103).
StartGame(c) ==
  /\ call[c].pc = "updateRoom"
  /\ rooms' = { IF room.id = call[c].roomId
                THEN [room EXCEPT !.status = "active"] ELSE room
                : room \in rooms }
  /\ call' = [call EXCEPT ![c] = [@ EXCEPT !.pc = "insert"]]
  /\ UNCHANGED <<called_numbers, tickets, join, genVars, validatorVars, pageVars>>

\* INSERT INTO called_numbers and the response (lines 106-124).
InsertNumber(c) ==
  /\ call[c].pc = "insert"
  /\ \/ /\ called_numbers' = called_numbers \cup
             {[id |-> Cardinality(called_numbers) + 1,
               room_id |-> call[c].roomId, number |-> call[c].number,
               called_by |-> call[c].hostId]}
        /\ call' = [call EXCEPT ![c] = Responded(call[c], 200, "success")]
     \/ /\ UNCHANGED called_numbers
        /\ call' = [call EXCEPT ![c] =
                      Responded(call[c], 500, "Failed to record called number")]
  /\ UNCHANGED <<genVars, storeVars, validatorVars, pageVars>>

\* The response has been sent; the caller may post again.
FinishCall(c) ==
  /\ call[c].pc = "responded"
  /\ call' = [call EXCEPT ![c] = Idle]
  /\ UNCHANGED <<called_numbers, genVars, storeVars, validatorVars, pageVars>>

ApiNext ==
  \/ \E id \in RoomIds : CreateRoom(id)
  \/ \E roomId \in RoomIds, status \in Statuses : UpdateRoomStatus(roomId, status)
  \/ \E c \in Callers, roomId \in RoomIds \cup {""}, number \in BodyNumbers :
       \E hostId \in Callers \cup {""} : PostNumber(c, roomId, number, hostId)
  \/ \E c \in Callers : SelectRoom(c)
  \/ \E c \in Callers : SelectExisting(c)
  \/ \E c \in Callers : StartGame(c)
  \/ \E c \in Callers : InsertNumber(c)
  \/ \E c \in Callers : FinishCall(c)

ApiSpec == Init /\ [][ApiNext]_vars

\* ------------------------------------------------------------------------
\* isValidTicket applied to grids that are not what createTicketGrid built
\* ------------------------------------------------------------------------
\* The grids isValidTicket is given: grids generateLotoTicket returns, with
\* up to MaxEdits changes of a cell or of a length.
MaxEdits == 2
EditedCols == {0, 1, 8}
CellValues == {null, 1, 9, 10, 80, 91}

ValidatorInit ==
  /\ GenInit /\ StoreInit /\ ApiInit /\ PageIdle
  /\ candidate \in TicketPool
  /\ verdict = isValidTicket(candidate)
  /\ edits = 0

HasCell(g, row, col) == row \in DOMAIN g /\ col \in DOMAIN g[row]

\* The grid with the contents of two cells of one column exchanged.
Swapped(g, col, upper, lower) ==
  [g EXCEPT ![upper][col] = g[lower][col], ![lower][col] = g[upper][col]]

\* isValidTicket(candidate) after the change.
Validate(edited) ==
  /\ edits < MaxEdits
  /\ candidate' = edited
  /\ verdict' = isValidTicket(edited)
  /\ edits' = edits + 1
  /\ UNCHANGED <<genVars, storeVars, apiVars, pageVars>>

SetCell(row, col, value) ==
  /\ HasCell(candidate, row, col)
  /\ Validate([candidate EXCEPT ![row][col] = value])

SwapInColumn(col, upper, lower) ==
  /\ HasCell(candidate, upper, col) /\ HasCell(candidate, lower, col)
  /\ Validate(Swapped(candidate, col, upper, lower))

\* grid.length = ROWS - 1: the last row removed.
DropRow ==
  /\ DOMAIN candidate = Rows
  /\ Validate([row \in 0..(ROWS - 2) |-> candidate[row]])

\* grid[row].length = COLS - 1: the last cell of a row removed.
DropCell(row) ==
  /\ row \in DOMAIN candidate
  /\ DOMAIN candidate[row] = Cols
  /\ Validate([candidate EXCEPT ![row] = [col \in 0..(COLS - 2) |-> candidate[row][col]]])

ValidatorNext ==
  \/ \E row \in Rows, col \in EditedCols, value \in CellValues :
       SetCell(row, col, value)
  \/ \E col \in EditedCols, upper \in Rows, lower \in Rows :
       upper < lower /\ SwapInColumn(col, upper, lower)
  \/ DropRow
  \/ \E row \in Rows : DropCell(row)

ValidatorSpec == ValidatorInit /\ [][ValidatorNext]_vars

\* assignRowsToColumns alone, called as createTicketGrid calls it: on a vector
\* distributeNumbersAcrossColumns returns, here one whose top-up draws fell in
\* the columns 0..(VariedColumns - 1).
VariedColumns == 6

AssignInputs ==
  { columnCounts \in [Cols -> 1..3] :
      /\ \A col \in Cols : col >= VariedColumns => columnCounts[col] = 1
      /\ SumFrom(columnCounts, 0) = TOTAL_NUMBERS }

AssignInit ==
  /\ pc = "distribute"
  /\ attempt = 0
  /\ counts \in AssignInputs
  /\ remaining = 0
  /\ columnRowAssignments = NoLists
  /\ grid = NoGrid
  /\ error = "none"
  /\ result = "none"
  /\ StoreInit
  /\ ApiInit
  /\ ValidatorIdle
  /\ PageIdle

AssignSpec == AssignInit /\ [][AssignRows]_vars

\* ------------------------------------------------------------------------
\* The player page (src/app/room/[id]/page.tsx)
\* ------------------------------------------------------------------------
\* A generated ticket, and the same grid with its middle row left without
\* numbers.
PageTicket == buildGrid(PoolAssignments, NumbersWith(PoolCounts, {}))
EmptiedRow(g, row) == [g EXCEPT ![row] = [col \in Cols |-> null]]
WinTickets == {PageTicket, EmptiedRow(PageTicket, 1)}

\* The rows whose cells the player taps, and the numbers the host calls: one
\* of the first row and one of the second.
ClickedRows == {0}
PageCalls == {PageTicket[0][0], PageTicket[1][0]}

\* The render that follows a state change: lines 111-116.
Render(markedNumbers) ==
  /\ winResult' = checkWinCondition(ticket.ticket_data, markedNumbers)
  /\ numbersToWin' = getNumbersToWin(ticket.ticket_data, markedNumbers)

\* The page with its ticket set, nothing marked.
PageLoaded(loaded) ==
  /\ ticket = loaded
  /\ calledNumbers = <<>>
  /\ manuallyMarkedNumbers = {}
  /\ isMarkingMode = FALSE
  /\ winResult = checkWinCondition(loaded.ticket_data, {})
  /\ numbersToWin = getNumbersToWin(loaded.ticket_data, {})

\* checkWinCondition and getNumbersToWin on a ticket and the marked sets the
\* taps produce.
WinInit ==
  /\ GenInit /\ StoreInit /\ ApiInit /\ ValidatorIdle
  /\ \E g \in WinTickets : PageLoaded([ticket_data |-> g])

\* The row of table tickets the join returned to the page.
PageTicketRow ==
  [id |-> 1, room_id |-> "room-1", player_id |-> "player-1",
   ticket_data |-> PageTicket, ticket_hash |-> hashTicket(PageTicket)]

\* The page of a player who has joined a waiting room (setRoom, setTicket,
\* lines 57-59).
PageInit ==
  /\ GenInit /\ ApiInit /\ ValidatorIdle
  /\ rooms = {[id |-> "room-1", room_code |-> RoomCodes["room-1"],
               host_id |-> "host-1", status |-> "waiting"]}
  /\ tickets = {PageTicketRow}
  /\ join = [p \in Players |-> Idle]
  /\ PageLoaded(PageTicketRow)

\* onClick={() => setIsMarkingMode(!isMarkingMode)}, line 219
ToggleMarkingMode ==
  /\ isMarkingMode' = ~isMarkingMode
  /\ Render(manuallyMarkedNumbers)
  /\ UNCHANGED <<ticket, calledNumbers, manuallyMarkedNumbers>>
  /\ UNCHANGED <<genVars, storeVars, apiVars, validatorVars>>

\* newSet.has(number) ? newSet.delete(number) : newSet.add(number)
Toggled(prev, number) ==
  IF number \in prev THEN prev \ {number} ELSE prev \cup {number}

\* handleNumberClick(number), lines 96-108
handleNumberClick(number) ==
  /\ isMarkingMode
  /\ manuallyMarkedNumbers' = Toggled(manuallyMarkedNumbers, number)
  /\ Render(manuallyMarkedNumbers')
  /\ UNCHANGED <<ticket, calledNumbers, isMarkingMode>>
  /\ UNCHANGED <<genVars, storeVars, apiVars, validatorVars>>

\* A tap on a cell of the ticket: onClick={() => cell && onCellClick?.(cell)}
\* with onCellClick = isMarkingMode ? handleNumberClick : undefined.
ClickCell(row, col) ==
  /\ ticket.ticket_data[row][col] # null
  /\ handleNumberClick(ticket.ticket_data[row][col])

\* The rows in the order of called_at, as the list of their numbers.
RECURSIVE NumbersInOrder(_)
NumbersInOrder(rows) ==
  IF rows = {} THEN <<>>
  ELSE LET first == CHOOSE row \in rows : \A other \in rows : row.id <= other.id
       IN <<first.number>> \o NumbersInOrder(rows \ {first})

\* fetchNumbers (lines 70-82) with GET /api/rooms/[id]/numbers: the numbers
\* of the room in the order they were called; nothing is set when the
\* response is not ok.
FetchNumbers ==
  /\ \E room \in rooms : room.id = ticket.room_id
  /\ calledNumbers' =
       NumbersInOrder({ row \in called_numbers : row.room_id = ticket.room_id })
  /\ Render(manuallyMarkedNumbers)
  /\ UNCHANGED <<ticket, manuallyMarkedNumbers, isMarkingMode>>
  /\ UNCHANGED <<genVars, storeVars, apiVars, validatorVars>>

WinNext ==
  \/ ToggleMarkingMode
  \/ \E row \in Rows, col \in Cols : ClickCell(row, col)

WinSpec == WinInit /\ [][WinNext]_vars

\* The page of one player while the host calls numbers.
PageNext ==
  \/ \E c \in Hosts, roomId \in RoomIds, number \in PageCalls :
       PostNumber(c, roomId, number, c)
  \/ \E c \in Hosts : SelectRoom(c)
  \/ \E c \in Hosts : SelectExisting(c)
  \/ \E c \in Hosts : StartGame(c)
  \/ \E c \in Hosts : InsertNumber(c)
  \/ \E c \in Hosts : FinishCall(c)
  \/ FetchNumbers
  \/ ToggleMarkingMode
  \/ \E row \in ClickedRows, col \in Cols : ClickCell(row, col)

PageSpec == PageInit /\ [][PageNext]_vars

\* distributeNumbersAcrossColumns alone, Math.random() giving every column.
DistributeNext ==
  \/ BeginAttempt
  \/ \E col \in Cols : TopUp(col)

DistributeSpec == Init /\ [][DistributeNext]_vars

Next ==
  \/ BeginAttempt
  \/ \E col \in RandomColumns : TopUp(col)
  \/ AssignRows
  \/ CompleteAttempt
  \/ Exhausted

Spec == Init /\ [][Next]_vars

\* Fairness of one call of generateLotoTicket: the call keeps running, and
\* Math.random() does not return columns that are at the cap for ever (an
\* iteration of the top-up loop on such a column changes nothing).
FairSpec == Spec /\ WF_vars(Next)

\* ------------------------------------------------------------------------
\* Properties
\* ------------------------------------------------------------------------
\* The attempt has built its grid: the grid has been returned by
\* generateLotoTicket, or it has failed validation and the next attempt has
\* not begun.
GridBuilt == grid # NoGrid
GridReturned == pc = "returned"

NonEmptyCells(g) == { rc \in Rows \X Cols : g[rc[1]][rc[2]] # null }

\* C1: every grid an attempt builds, and so every grid generateLotoTicket
\* returns, has exactly 3 rows of exactly 9 cells, and each row holds exactly
\* 5 numbers and 4 empty cells.
C1_RowShape ==
  GridBuilt =>
    /\ DOMAIN grid = 0..2
    /\ \A row \in DOMAIN grid :
         /\ DOMAIN grid[row] = 0..8
         /\ Cardinality({ col \in 0..8 : grid[row][col] # null }) = 5
         /\ Cardinality({ col \in 0..8 : grid[row][col] = null }) = 4

C1_Witness ==
  /\ GridReturned
  /\ grid[0][0] # null
  /\ grid[0][1] = null
  /\ Cardinality({ col \in 0..8 : grid[0][col] # null }) = 5

\* C2: every grid an attempt builds, and so every grid generateLotoTicket
\* returns, has at least 1 and at most 3 numbers in each of its 9 columns.
C2_ColumnCounts ==
  GridBuilt =>
    \A col \in 0..8 :
      LET n == Cardinality({ row \in 0..2 : grid[row][col] # null })
      IN 1 <= n /\ n <= 3

C2_Witness ==
  /\ GridReturned
  /\ Cardinality({ row \in 0..2 : grid[row][0] # null }) = 3
  /\ Cardinality({ row \in 0..2 : grid[row][1] # null }) = 1

\* C3: every grid an attempt builds, and so every grid generateLotoTicket
\* returns, holds exactly 15 numbers, and they are pairwise distinct.
C3_FifteenDistinct ==
  GridBuilt =>
    /\ Cardinality(NonEmptyCells(grid)) = 15
    /\ Cardinality({ grid[rc[1]][rc[2]] : rc \in NonEmptyCells(grid) }) = 15

C3_Witness ==
  /\ GridReturned
  /\ Cardinality(NonEmptyCells(grid)) = 15
  /\ \E rc \in NonEmptyCells(grid) : grid[rc[1]][rc[2]] = 90

\* C4: in every grid an attempt builds, and so in every grid
\* generateLotoTicket returns, the numbers of each column are strictly
\* ascending from the top row to the bottom row.
C4_ColumnsAscending ==
  GridBuilt =>
    \A col \in 0..8 : \A upper \in 0..1 : \A lower \in (upper + 1)..2 :
      (grid[upper][col] # null /\ grid[lower][col] # null)
        => grid[upper][col] < grid[lower][col]

C4_Witness ==
  /\ GridReturned
  /\ grid[0][0] = 1
  /\ grid[1][0] = 2
  /\ grid[2][0] = 9

\* C5: in every grid an attempt builds, and so in every grid
\* generateLotoTicket returns, each number of column c lies within
\* COLUMN_RANGES[c]; in particular column 0 holds only 1..9 and column 8
\* only 80..90.
C5_ColumnRanges ==
  GridBuilt =>
    \A row \in 0..2 : \A col \in 0..8 :
      grid[row][col] # null =>
        /\ COLUMN_RANGES[col][1] <= grid[row][col]
        /\ grid[row][col] <= COLUMN_RANGES[col][2]
        /\ (col = 0 => (1 <= grid[row][col] /\ grid[row][col] <= 9))
        /\ (col = 8 => (80 <= grid[row][col] /\ grid[row][col] <= 90))

C5_Witness ==
  /\ GridReturned
  /\ \E row \in 0..2 : grid[row][0] = 9
  /\ \E row \in 0..2 : grid[row][8] = 80

\* C6 as stated: in every returned grid, each number of a column c in 0..7
\* lies within [10c + 1, 10c + 9].
C6_AsStated ==
  GridReturned =>
    \A row \in 0..2 : \A col \in 0..7 :
      grid[row][col] # null =>
        /\ 10 * col + 1 <= grid[row][col]
        /\ grid[row][col] <= 10 * col + 9

\* C6: in every grid an attempt builds, and so in every grid
\* generateLotoTicket returns, each number of column 0 lies within [1, 9]
\* and each number of a column c in 1..7 within [10c, 10c + 9].
C6_Decades ==
  GridBuilt =>
    \A row \in 0..2 :
      /\ grid[row][0] # null => (1 <= grid[row][0] /\ grid[row][0] <= 9)
      /\ \A col \in 1..7 :
           grid[row][col] # null =>
             (10 * col <= grid[row][col] /\ grid[row][col] <= 10 * col + 9)

C6_Witness ==
  /\ GridReturned
  /\ \E row \in 0..2 : grid[row][1] = 10

\* C7: generateLotoTicket throws only after exactly 100 failed attempts (the
\* counter moves one attempt at a time, and only when an attempt has failed),
\* and after an attempt has yielded a valid grid no further attempt is made.
C7_ThrowsOnlyWhenExhausted ==
  /\ [](pc = "thrown" => attempt = 100)
  /\ [][ /\ (pc' = "thrown" /\ pc # "thrown") => attempt = 100
         /\ attempt' # attempt =>
              /\ attempt' = attempt + 1
              /\ pc \in {"distribute", "numbers"}
              /\ pc' = "loop"
              /\ result = "none"
         /\ pc = "returned" => (pc' = "returned" /\ attempt' = attempt)
         /\ (pc = "numbers" /\ isValidTicket(grid')) => pc' = "returned" ]_vars

C7_Witness ==
  /\ pc = "thrown"
  /\ attempt = 100
  /\ grid = NoGrid

\* C8: an error thrown inside an attempt (a row-assignment dead end) or a
\* failed validation is never what the caller gets: it leads to the next
\* attempt, and the only error generateLotoTicket raises is the exhaustion
\* error.
C8_OnlyExhaustionSurfaces ==
  /\ [](result \in {"none", "grid", ExhaustedMessage})
  /\ [](pc = "thrown" <=> result = ExhaustedMessage)
  /\ [][ /\ (error' # error /\ error' # "none") =>
              (pc' = "loop" /\ attempt' = attempt + 1 /\ result' = "none")
         /\ (pc = "numbers" /\ grid' # grid /\ ~isValidTicket(grid')) =>
              (pc' = "loop" /\ attempt' = attempt + 1 /\ result' = "none") ]_vars

C8_Witness ==
  /\ pc = "loop"
  /\ error = "Cannot assign rows - constraint violation"
  /\ attempt = 1
  /\ result = "none"

\* C9: every call of generateLotoTicket ends, by a return or by the throw,
\* after at most 100 attempts, and under a fair random column choice every
\* run of the top-up loop of distributeNumbersAcrossColumns ends.
C9_Terminates ==
  /\ [](attempt <= 100)
  /\ <>(pc \in {"returned", "thrown"})
  /\ (pc = "distribute" /\ remaining > 0) ~> (remaining = 0)

C9_Witness ==
  /\ pc = "distribute"
  /\ remaining = 0
  /\ attempt = 99

\* C10: no two rows of table tickets with the same room_id have the same
\* ticket_hash, whatever the interleaving of the joins.
C10_UniqueHashPerRoom ==
  \A r1, r2 \in tickets :
    (r1 # r2 /\ r1.room_id = r2.room_id) => r1.ticket_hash # r2.ticket_hash

C10_Witness ==
  \E r1, r2 \in tickets :
    /\ r1.room_id = r2.room_id
    /\ r1.player_id # r2.player_id
    /\ r1.ticket_hash # r2.ticket_hash

\* C11: createTicket inserts at most 10 times, with attempt 0..9. A rejected
\* insert (23505 or any other error) is followed by attempt + 1 and a new call
\* of generateLotoTicket(), so every insert is of a grid generated in the same
\* attempt; createTicket throws only when attempt has reached 10.
C11_RetriesWithFreshGrid ==
  /\ [](\A p \in Players :
          /\ join[p].pc = "createTicket" => join[p].attempt <= createTicketMaxAttempts
          /\ join[p].pc = "insert" => join[p].attempt < createTicketMaxAttempts)
  /\ [][\A p \in Players :
          /\ (join[p].pc = "insert" /\ join'[p] # join[p] /\ tickets' = tickets)
               => /\ join'[p].pc = "createTicket"
                  /\ join'[p].attempt = join[p].attempt + 1
          /\ (join'[p].pc = "insert" /\ join'[p] # join[p])
               => /\ join[p].pc = "createTicket"
                  /\ join'[p].attempt = join[p].attempt
                  /\ join'[p].ticketData \in TicketPool
                  /\ join'[p].ticketHash = hashTicket(join'[p].ticketData)
          /\ (join[p].pc \in {"createTicket", "insert"} /\ join'[p].pc = "failed")
               => join[p].attempt = createTicketMaxAttempts]_vars

\* The tenth insert of a call, after a duplicate was rejected.
C11_Witness ==
  \E p \in Players :
    /\ join[p].pc = "insert"
    /\ join[p].attempt = createTicketMaxAttempts - 1
    /\ join[p].lastError = "Duplicate ticket generated"

\* C12 as stated: when joinRoomAndGetTicket, called by POST
\* /api/rooms/{id}/join with the id of a room that exists and is not
\* completed, looks the room up, it finds that room and goes on to the
\* player's ticket; the call does not fail.
C12_JoinByIdSucceeds ==
  [][\A p \in Players :
       ( /\ join[p].pc = "getRoomByCode"
         /\ join'[p] # join[p]
         /\ \E room \in rooms : /\ IdText(room.id) = join[p].roomCode
                                /\ room.status # "completed" )
       => /\ join'[p].pc = "getPlayerTicket"
          /\ IdText(join'[p].room.id) = join[p].roomCode]_vars

\* The six structural invariants of a ticket, each as the rule states it.
IsThreeByNine(g) ==
  /\ DOMAIN g = 0..2
  /\ \A row \in 0..2 : DOMAIN g[row] = 0..8

FiveNumbersPerRow(g) ==
  \A row \in 0..2 : Cardinality({ col \in 0..8 : g[row][col] # null }) = 5

OneToThreePerColumn(g) ==
  \A col \in 0..8 :
    Cardinality({ row \in 0..2 : g[row][col] # null }) \in 1..3

FifteenDistinctNumbers(g) ==
  /\ Cardinality(NonEmptyCells(g)) = 15
  /\ \A a \in NonEmptyCells(g) : \A b \in NonEmptyCells(g) :
       a # b => g[a[1]][a[2]] # g[b[1]][b[2]]

WithinColumnRanges(g) ==
  \A rc \in NonEmptyCells(g) :
    /\ g[rc[1]][rc[2]] >= COLUMN_RANGES[rc[2]][1]
    /\ g[rc[1]][rc[2]] <= COLUMN_RANGES[rc[2]][2]

StrictlyAscendingColumns(g) ==
  \A col \in 0..8 : \A upper \in 0..2 : \A lower \in 0..2 :
    (upper < lower /\ g[upper][col] # null /\ g[lower][col] # null)
      => g[upper][col] < g[lower][col]

SixInvariants(g) ==
  /\ IsThreeByNine(g)
  /\ FiveNumbersPerRow(g)
  /\ OneToThreePerColumn(g)
  /\ FifteenDistinctNumbers(g)
  /\ WithinColumnRanges(g)
  /\ StrictlyAscendingColumns(g)

\* C13: isValidTicket returns true for a grid exactly when the grid satisfies
\* the six structural invariants; and when it returns true, it returns false
\* for the same grid with two numbers of one column exchanged.
C13_ValidatorIffInvariants ==
  /\ verdict <=> SixInvariants(candidate)
  /\ verdict =>
       \A col \in Cols : \A upper \in Rows : \A lower \in Rows :
         ( /\ upper < lower
           /\ candidate[upper][col] # null
           /\ candidate[lower][col] # null )
         => ~isValidTicket(Swapped(candidate, col, upper, lower))

\* Two numbers of column 0 of a valid grid have been exchanged, and
\* isValidTicket has returned false.
C13_Witness ==
  /\ edits = 1
  /\ verdict = FALSE
  /\ IsThreeByNine(candidate)
  /\ candidate[0][0] # null /\ candidate[1][0] # null
  /\ candidate[0][0] > candidate[1][0]
  /\ isValidTicket(Swapped(candidate, 0, 0, 1))

\* deserializeTicket(serializeTicket(g)) is a grid of the same rows and
\* columns as g, holding at every position the same number or the same null.
RoundTrips(g) ==
  \A parsed \in {deserializeTicket(serializeTicket(g))} :
    /\ DOMAIN parsed = DOMAIN g
    /\ \A row \in DOMAIN g :
         /\ DOMAIN parsed[row] = DOMAIN g[row]
         /\ \A col \in DOMAIN g[row] : parsed[row][col] = g[row][col]

\* The grids generateLotoTicket can return for which that is so.
RoundTripGrids == { g \in GeneratedGrids : RoundTrips(g) }

\* C14: every grid generateLotoTicket returns is one that
\* deserializeTicket(serializeTicket(grid)) gives back cell by cell.
C14_RoundTrip == GridReturned => grid \in RoundTripGrids

\* A returned grid with an empty first cell, a one-digit and a two-digit
\* number, read back from its text.
C14_Witness ==
  /\ GridReturned
  /\ \E row \in Rows : deserializeTicket(serializeTicket(grid))[row][1] = null
  /\ \E row \in Rows : deserializeTicket(serializeTicket(grid))[row][0] = 9
  /\ \E row \in Rows : deserializeTicket(serializeTicket(grid))[row][8] = 80

BoundaryValues == {1, 9, 10, 79, 80, 90}

\* The numbers that occur in a grid generateLotoTicket can return.
GeneratedValues ==
  UNION { { g[rc[1]][rc[2]] : rc \in NonEmptyCells(g) } : g \in GeneratedGrids }

\* C15: for each of the values 1, 9, 10, 79, 80 and 90 there is a grid that
\* generateLotoTicket can return and that contains the value; and the grids
\* the calls return are among those grids.
C15_BoundariesReachable ==
  /\ BoundaryValues \subseteq GeneratedValues
  /\ GridReturned => grid \in GeneratedGrids

\* A returned grid holding the lowest numbers of columns 0, 1 and 8 and the
\* highest of column 7.
C15_Witness ==
  /\ GridReturned
  /\ \E row \in Rows : grid[row][0] = 1
  /\ \E row \in Rows : grid[row][1] = 10
  /\ \E row \in Rows : grid[row][7] = 79
  /\ \E row \in Rows : grid[row][8] = 80

\* The request names a room that exists and whose host_id is not the
\* request's hostId.
WrongHost(request) ==
  \E room \in rooms : room.id = request.roomId /\ room.host_id # request.hostId

StatusRank(status) ==
  CASE status = "waiting" -> 0
    [] status = "active" -> 1
    [] status = "completed" -> 2

\* C17 as stated: no step of createRoom, updateRoomStatus or the POST that
\* calls a number moves a room to an earlier status than the one it has.
C17_StatusOnlyAdvances ==
  [][\A room \in rooms : \A next \in rooms' :
       next.id = room.id => StatusRank(next.status) >= StatusRank(room.status)]_vars

\* distributeNumbersAcrossColumns is at `return counts`.
CountsReturned == pc = "distribute" /\ remaining = 0

\* C18: the vector distributeNumbersAcrossColumns returns has 9 entries, each
\* of them 1, 2 or 3, and their sum is 15.
C18_CountsSumToFifteen ==
  CountsReturned =>
    /\ DOMAIN counts = 0..8
    /\ \A col \in 0..8 : counts[col] \in {1, 2, 3}
    /\ counts[0] + counts[1] + counts[2] + counts[3] + counts[4]
         + counts[5] + counts[6] + counts[7] + counts[8] = 15

\* A returned vector with each of the counts 1, 2 and 3 in it.
C18_Witness ==
  /\ CountsReturned
  /\ counts[0] = 1
  /\ counts[1] = 3
  /\ counts[2] = 2

\* assignRowsToColumns has returned its assignments array.
RowsAssigned == pc = "numbers"

\* The number of columns whose assigned rows include the row.
NumbersInRow(assignments, row) ==
  Cardinality({ col \in Cols : Includes(assignments[col], row) })

\* C19: the final check of assignRowsToColumns never fails: its error is
\* never thrown, and whenever the nine columns have been assigned every row
\* has received exactly 5 numbers.
C19_FinalCheckNeverFails ==
  /\ error # "Row has a wrong number of numbers"
  /\ RowsAssigned =>
       \A row \in Rows : NumbersInRow(columnRowAssignments, row) = NUMBERS_PER_ROW

\* The nine columns assigned for a vector with three full columns.
C19_Witness ==
  /\ RowsAssigned
  /\ counts[0] = 3
  /\ counts[1] = 3
  /\ counts[2] = 3
  /\ \A row \in Rows : NumbersInRow(columnRowAssignments, row) = NUMBERS_PER_ROW

\* throw new Error('Cannot assign rows - constraint violation'), line 137
DeadEnd == Thrown("Cannot assign rows - constraint violation")

\* The vectors distributeNumbersAcrossColumns returns for which some sequence
\* of row choices ends at that throw.
DeadEndCounts ==
  { columnCounts \in ColumnCounts : DeadEnd \in assignRowsToColumns(columnCounts) }

\* C20: row assignment can fail: some vector distributeNumbersAcrossColumns
\* returns has a sequence of row choices that leaves a column without an
\* eligible row, and an attempt that ends inside assignRowsToColumns has
\* thrown the constraint-violation error on such a vector.
C20_RowAssignmentCanFail ==
  /\ DeadEndCounts # {}
  /\ [][(pc = "distribute" /\ pc' = "loop") =>
          /\ counts \in DeadEndCounts
          /\ error' = DeadEnd.message]_vars

\* An attempt has just ended at the constraint-violation throw: the vector
\* distributeNumbersAcrossColumns returned is still in place.
C20_Witness ==
  /\ pc = "loop"
  /\ error = DeadEnd.message
  /\ counts \in DeadEndCounts
  /\ remaining = 0
  /\ columnRowAssignments = NoLists

\* C21: in createTicket an insert either succeeds, or fails with 23505 and
\* leads to another attempt, or fails otherwise and ends createTicket with a
\* 'Failed to create ticket' error: only a uniqueness violation is followed
\* by another generated ticket.
C21_OnlyUniquenessRetries ==
  [][\A p \in Players :
       (join[p].pc = "insert" /\ join'[p] # join[p]) =>
         \/ join'[p].pc = "done"
         \/ /\ join'[p].pc = "createTicket"
            /\ join'[p].lastError = "Duplicate ticket generated"
         \/ /\ join'[p].pc = "failed"
            /\ join'[p].error = "Failed to create ticket"]_vars

\* The rows of table tickets of a player in a room.
TicketsOf(roomId, playerId) ==
  { row \in tickets : row.room_id = roomId /\ row.player_id = playerId }

CompletedRoomsFor(roomCode) ==
  { room \in rooms :
      room.room_code = ToUpperCase(roomCode) /\ room.status = "completed" }

C24_NumbersCalledOnce ==
  \A first \in called_numbers, second \in called_numbers :
    (first.room_id = second.room_id /\ first.number = second.number)
      => first = second

\* The rows of a grid that hold a number and whose numbers are all marked.
FullyMarkedRows(g, marked) ==
  { row \in DOMAIN g :
      /\ \E col \in Cols : g[row][col] # null
      /\ \A col \in Cols : g[row][col] # null => g[row][col] \in marked }

\* A list holds exactly the elements of a set, in ascending order.
IsAscendingListOf(list, S) ==
  /\ Len(list) = Cardinality(S)
  /\ \A k \in 1..Len(list) : list[k] \in S
  /\ \A k \in 1..(Len(list) - 1) : list[k] < list[k + 1]

\* C25: checkWinCondition(ticket, marked) returns hasWon = true if and only
\* if at least one row has all of its numbers marked, a row without numbers
\* never counting, and completedRows is the ascending list of the indices of
\* those rows.
C25_WinIffRowComplete ==
  /\ winResult.hasWon <=>
       FullyMarkedRows(ticket.ticket_data, manuallyMarkedNumbers) # {}
  /\ IsAscendingListOf(winResult.completedRows,
                       FullyMarkedRows(ticket.ticket_data, manuallyMarkedNumbers))

\* The first and last row are complete; the middle row has no numbers.
C25_Witness ==
  /\ ticket.ticket_data = EmptiedRow(PageTicket, 1)
  /\ winResult.hasWon
  /\ winResult.completedRows = <<0, 2>>
  /\ Cardinality(manuallyMarkedNumbers) = 10

\* The numbers of a grid.
NumbersOf(g) ==
  { g[row][col] : row \in DOMAIN g, col \in Cols } \ {null}

\* The tickets of WinSpec that are valid tickets.
ValidWinTickets == { g \in WinTickets : isValidTicket(g) }

\* The line pattern of the lowest row of a set of rows.
LowestLine(rows) ==
  CASE 0 \in rows -> "top-line"
    [] 0 \notin rows /\ 1 \in rows -> "middle-line"
    [] OTHER -> "bottom-line"

\* C26: for a valid ticket checkWinCondition returns the pattern 'full-house'
\* if and only if all 15 numbers of the ticket are marked, which is exactly
\* when getNumbersToWin reports fullHouse = 0; with one or two rows complete
\* the pattern names the lowest-index completed row.
C26_FullHouseIffAllMarked ==
  ticket.ticket_data \in ValidWinTickets =>
    /\ Cardinality(NumbersOf(ticket.ticket_data)) = 15
    /\ (winResult.hasWon /\ winResult.pattern = "full-house")
         <=> NumbersOf(ticket.ticket_data) \subseteq manuallyMarkedNumbers
    /\ (NumbersOf(ticket.ticket_data) \subseteq manuallyMarkedNumbers)
         <=> numbersToWin.fullHouse = 0
    /\ Cardinality(FullyMarkedRows(ticket.ticket_data, manuallyMarkedNumbers))
           \in {1, 2}
         => /\ winResult.hasWon
            /\ winResult.pattern =
                 LowestLine(FullyMarkedRows(ticket.ticket_data,
                                            manuallyMarkedNumbers))

\* All 15 numbers of a valid ticket are marked and the full house is
\* reported.
C26_Witness ==
  /\ ticket.ticket_data \in ValidWinTickets
  /\ Cardinality(manuallyMarkedNumbers) = 15
  /\ winResult.pattern = "full-house"
  /\ numbersToWin.fullHouse = 0

\* The middle and the bottom row of a valid ticket are complete, the top row
\* is not.
C26_TwoLines ==
  /\ ticket.ticket_data \in ValidWinTickets
  /\ winResult.hasWon
  /\ winResult.completedRows = <<1, 2>>
  /\ winResult.pattern = "middle-line"

\* C27: the validation after construction never rejects: every grid an
\* attempt builds passes isValidTicket, the attempt that built a grid returns
\* it, and an attempt fails, the loop counter going up, only by the
\* no-eligible-row error of assignRowsToColumns.
C27_ValidationNeverRejects ==
  /\ [](GridBuilt => isValidTicket(grid))
  /\ [][pc = "numbers" => pc' \in {"numbers", "returned"}]_vars
  /\ [][attempt' # attempt =>
          (pc = "distribute" /\ error' = DeadEnd.message)]_vars

\* Two attempts ended at the no-eligible-row error and the third returned
\* the grid it built.
C27_Witness ==
  /\ GridReturned
  /\ attempt = 2
  /\ isValidTicket(grid)
  /\ result = "grid"

\* The numbers the host has called in the room of the page's ticket.
CalledInRoom ==
  { row.number : row \in { r \in called_numbers : r.room_id = ticket.room_id } }

\* The numbers of the rows the page reports as completed.
NumbersOfCompletedRows ==
  { ticket.ticket_data[winResult.completedRows[k]][col]
      : k \in 1..Len(winResult.completedRows), col \in Cols } \ {null}

\* C28 as stated: the marked set passed to checkWinCondition is a subset of
\* the numbers called in the room, so every number of a row reported as
\* completed has been called, and the ticket is never changed.
C28_AsStated ==
  /\ [](manuallyMarkedNumbers \subseteq CalledInRoom)
  /\ [](winResult.hasWon => NumbersOfCompletedRows \subseteq CalledInRoom)
  /\ [][ticket' = ticket /\ tickets' = tickets]_vars

\* C28: the marked set passed to checkWinCondition is the set of numbers of
\* the ticket the player has tapped, called or not: a win is reported only
\* when every number of the completed row or rows is in that set, and the
\* ticket is never changed.
C28_WinOnlyOnMarkedRows ==
  /\ [](manuallyMarkedNumbers \subseteq NumbersOf(ticket.ticket_data))
  /\ [](winResult.hasWon =>
          /\ Len(winResult.completedRows) > 0
          /\ NumbersOfCompletedRows \subseteq manuallyMarkedNumbers)
  /\ [][ticket' = ticket /\ tickets' = tickets]_vars

\* The top line is reported while the host has called one of its five
\* numbers, which the page has fetched.
C28_Witness ==
  /\ winResult.hasWon
  /\ winResult.pattern = "top-line"
  /\ Cardinality(manuallyMarkedNumbers) = 5
  /\ Len(calledNumbers) = 1
  /\ CalledInRoom = {ticket.ticket_data[0][0]}
  /\ ticket = PageTicketRow
====
